---- MODULE Spec2Model ----
(***************************************************************************)
(* GenericService of django_socio_grpc/generics.py: lookup resolution,     *)
(* get_object / aget_object, the filter chain in both execution modes,     *)
(* the cached paginator and the serializer context.                        *)
(***************************************************************************)
EXTENDS Integers, Sequences, FiniteSets, TLC

\* ------------------------------------------------------------------ bounds
MaxId == 2
MaxBackends == 2
NumServices == 2
MaxAccesses == 3

\* ------------------------------------------------------------- data domain
\* Python's None, where the attribute otherwise holds a name.
None == "None"

Services == 1..NumServices
Contexts == {"ctx1", "ctx2"}

\* The entity type behind the collection: Book(id AutoField pk, date DateField).
ModelName == "Book"
ModelFields == {"id", "date"}
Ids == 1..MaxId
DateOf(i) == (i + 1) \div 2
Entity(i) == [id |-> i, date |-> DateOf(i)]
EntityPool == {Entity(i) : i \in Ids}
NoEntity == [id |-> 0, date |-> 0]

\* Values a request attribute can hold: an int, a text (n = 0: not a date), a list.
Values == [kind : {"int"}, n : Ids] \cup [kind : {"str"}, n : 0..DateOf(MaxId)]
            \cup [kind : {"list"}, n : {0}]
Absent == [kind |-> "absent", n |-> 0]

\* A collection: the entity type, the rows it would yield, the filters applied.
Queryset(rows) == [model |-> ModelName, rows |-> rows, tags |-> <<>>]
NoQueryset == [model |-> None, rows |-> {}, tags |-> <<>>]

\* Filter backend classes: a tag, and whether filter_queryset is a coroutine function.
BackendPool == [tag : {"A", "B"}, is_async : BOOLEAN]
RECURSIVE SeqsUpTo(_, _)
SeqsUpTo(S, n) ==
  IF n = 0 THEN {<<>>}
  ELSE LET shorter == SeqsUpTo(S, n - 1)
       IN  shorter \cup {Append(s, x) : s \in {t \in shorter : Len(t) = n - 1}, x \in S}

VARIABLES
  self,                  \* the service instance a handler runs on
  request, context,      \* self.request, self.context
  queryset,              \* the class attribute queryset
  lookup_field, lookup_request_field,
  filter_backends,
  overridden,            \* which filter method the service subclass overrides
  denied,                \* ids on which the object permission check fails
  pc, op,                \* position in the running handler, and which handler
  qs, idx,               \* locals: queryset, position in filter_backends
  lrf, lookup_value, obj, \* locals of get_object / aget_object
  pk_consulted,          \* get_model_pk was called by the last lookup resolution
  events,                \* what the running handler has called so far
  warned,                \* logger.warning was called in this call
  out,                   \* outcome of the last finished handler
  syncOut, asyncOut,     \* last outcome of get_object, of aget_object
  pagination_class,      \* per service: the paginator class, or None
  _paginator,            \* per service: the cached attribute, once set
  constructed,           \* per service: how often pagination_class() was called
  accessed,              \* per service: what the paginator property has returned
  accesses,              \* per service: how often the property was read
  page,                  \* the last paginate_queryset call and its result
  serializer             \* the last get_serializer / aget_serializer call and what it built

vars == <<self, request, context, queryset, lookup_field, lookup_request_field,
          filter_backends, overridden, denied, pc, op, qs, idx, lrf, lookup_value,
          obj, pk_consulted, events, warned, out, syncOut, asyncOut,
          pagination_class, _paginator, constructed, accessed, accesses, page, serializer>>

config == <<self, request, context, queryset, lookup_field, lookup_request_field,
            filter_backends, overridden, denied>>

locals == <<lrf, lookup_value, obj, pk_consulted>>
pageVars == <<pagination_class, _paginator, constructed, accessed, accesses, page>>
handlerVars == <<pc, op, qs, idx, locals, events, warned, out, syncOut, asyncOut>>

\* ---------------------------------------------------------------- outcomes
Unset == [kind |-> "unset", obj |-> NoEntity, qs |-> NoQueryset, detail |-> <<>>]
Returned(o) == [kind |-> "obj", obj |-> o, qs |-> NoQueryset, detail |-> <<>>]
ReturnedQs(q) == [kind |-> "queryset", obj |-> NoEntity, qs |-> q, detail |-> <<>>]
Raised(exc, detail) == [kind |-> exc, obj |-> NoEntity, qs |-> NoQueryset, detail |-> detail]

\* One call the running handler made: a backend's filter_queryset ("call", "ret"),
\* the single-entity query ("query"), the object permission check ("perm").
Event(ev, i, tag, bridge, ctx, q, view) ==
  [ev |-> ev, idx |-> i, tag |-> tag, bridge |-> bridge, ctx |-> ctx, qs |-> q,
   view |-> view, field |-> None, value |-> Absent, obj |-> NoEntity]
QueryEvent(q, field, value, raw) ==
  [ev |-> "query", idx |-> 0, tag |-> raw, bridge |-> None, ctx |-> None, qs |-> q,
   view |-> 0, field |-> field, value |-> value, obj |-> NoEntity]
PermEvent(o) ==
  [ev |-> "perm", idx |-> 0, tag |-> None, bridge |-> None, ctx |-> None, qs |-> NoQueryset,
   view |-> 0, field |-> None, value |-> Absent, obj |-> o]

\* ------------------------------------------------------------ get_queryset
get_queryset == queryset

\* ------------------------------------------------------- the filter chain
\* What backend b's filter_queryset(context, queryset, view) returns.
BackendFilter(b, ctx, q, view) ==
  [q EXCEPT !.tags = Append(@, b.tag),
            !.rows = IF b.tag = "A" THEN {e \in @ : e.id # 1} ELSE @]

\* What the executor holds after calling b through `bridge`: the backend's result,
\* or a coroutine object when a coroutine function was called and not run.
Coroutine == [model |-> "coroutine", rows |-> {}, tags |-> <<>>]
BridgedResult(b, bridge, ctx, q, view) ==
  IF b.is_async <=> bridge \in {"async_to_sync", "await"}
  THEN BackendFilter(b, ctx, q, view)
  ELSE Coroutine

\* filter_queryset: how backend b is called from the blocking executor.
SyncBridgeDirect(b) == "direct"
SyncBridge(b) == IF b.is_async THEN "async_to_sync" ELSE "direct"
\* afilter_queryset: how backend b is called from the cooperative executor.
AsyncBridge(b) == IF b.is_async THEN "await" ELSE "sync_to_async"

IsSyncOp(o) == o \in {"filter_queryset", "get_object"}

\* A subclass's own filter method: super()'s result, narrowed.
CustomFilter(q) == [q EXCEPT !.tags = Append(@, "custom"), !.rows = {e \in @ : e.id # 2}]

\* The warning of filter_queryset: the opposite-mode method is overridden.
SyncWarns == overridden \in {"afilter_queryset", "both"}
AsyncWarns == overridden \in {"filter_queryset", "both"}

\* The collection handed to backend i.
BackendInputUnfolded == get_queryset
BackendInput == qs
\* The (context, view) handed to backend i.
BackendContext == context
BackendView == self
\* The loop variable after backend i returned.
NextIdx == idx + 1

\* The executor is between two iterations of the loop over filter_backends.
InFilter == pc = "filter"

Call_filter_queryset ==
  /\ pc = "idle"
  /\ pc' = "filter"
  /\ op' = "filter_queryset"
  /\ qs' = get_queryset
  /\ idx' = 1
  /\ events' = <<>>
  /\ warned' = SyncWarns
  /\ out' = Unset
  /\ UNCHANGED <<config, pageVars, serializer, locals, syncOut, asyncOut>>

Call_afilter_queryset ==
  /\ pc = "idle"
  /\ pc' = "filter"
  /\ op' = "afilter_queryset"
  /\ qs' = get_queryset
  /\ idx' = 1
  /\ events' = <<>>
  /\ warned' = AsyncWarns
  /\ out' = Unset
  /\ UNCHANGED <<config, pageVars, serializer, locals, syncOut, asyncOut>>

\* One iteration of `for backend in list(self.filter_backends)`: the call.
BackendCall ==
  /\ InFilter
  /\ idx <= Len(filter_backends)
  /\ LET b == filter_backends[idx]
         bridge == IF IsSyncOp(op) THEN SyncBridge(b) ELSE AsyncBridge(b)
     IN  events' = Append(events,
                     Event("call", idx, b.tag, bridge, BackendContext, BackendInput, BackendView))
  /\ pc' = "backend"
  /\ UNCHANGED <<config, pageVars, serializer, op, qs, idx, locals, warned, out, syncOut, asyncOut>>

\* The backend returns (async_to_sync and await both resume only then).
BackendReturn ==
  /\ pc = "backend"
  /\ LET b == filter_backends[idx]
         call == events[Len(events)]
         res == BridgedResult(b, call.bridge, call.ctx, call.qs, call.view)
     IN  /\ qs' = res
         /\ events' = Append(events, Event("ret", idx, b.tag, call.bridge, call.ctx, res, call.view))
  /\ idx' = NextIdx
  /\ pc' = "filter"
  /\ UNCHANGED <<config, pageVars, serializer, op, locals, warned, out, syncOut, asyncOut>>

\* `return queryset` of filter_queryset / afilter_queryset called on its own.
FilterReturn ==
  /\ InFilter
  /\ idx > Len(filter_backends)
  /\ op \in {"filter_queryset", "afilter_queryset"}
  /\ out' = ReturnedQs(qs)
  /\ pc' = "idle"
  /\ UNCHANGED <<config, pageVars, serializer, op, qs, idx, locals, events, warned, syncOut, asyncOut>>

\* ------------------------------------------------ get_lookup_request_field
\* Python truth of a `str | None` attribute, as `or` tests it.
Truthy(x) == x \notin {None, ""}

\* model_meta.get_model_pk(model).name
ModelPk(model) == IF model = "Book" THEN "id" ELSE "uuid"

\* `self.lookup_field or ...`: the right operand is evaluated only when the left is falsy.
ConsultsPkEagerly == TRUE
ConsultsPk == ~Truthy(lookup_field)

get_lookup_request_field(q) ==
  LET lf == IF Truthy(lookup_field) THEN lookup_field ELSE ModelPk(q.model)
  IN  IF Truthy(lookup_request_field) THEN lookup_request_field ELSE lf

\* hasattr(self.request, name)
HasAttr(name) == name \in DOMAIN request

\* ------------------------------------------------------ get_object_or_404
\* What the field's value preparation raises for a lookup value, or None.
PrepError(field, v) ==
  IF field = "id"
  THEN IF v.kind = "int" THEN None ELSE IF v.kind = "str" THEN "ValueError" ELSE "TypeError"
  ELSE IF v.kind = "str" THEN (IF v.n = 0 THEN "ValidationError" ELSE None) ELSE "TypeError"

\* queryset.get(**{field: v}): [kind, obj].
QuerysetGet(q, field, v) ==
  IF field \notin ModelFields THEN [kind |-> "FieldError", obj |-> NoEntity]
  ELSE IF PrepError(field, v) # None THEN [kind |-> PrepError(field, v), obj |-> NoEntity]
  ELSE LET m == {e \in q.rows : e[field] = v.n}
       IN  IF m = {} THEN [kind |-> "DoesNotExist", obj |-> NoEntity]
           ELSE IF Cardinality(m) > 1 THEN [kind |-> "MultipleObjectsReturned", obj |-> NoEntity]
           ELSE [kind |-> "obj", obj |-> CHOOSE e \in m : TRUE]

\* django.shortcuts.get_object_or_404: DoesNotExist becomes Http404, the rest is as get() left it.
get_object_or_404(q, field, v) ==
  LET r == QuerysetGet(q, field, v)
  IN  IF r.kind = "DoesNotExist" THEN [r EXCEPT !.kind = "Http404"] ELSE r

\* The object permission check of services.Service: passes unless the entity is denied.
check_object_permissions(o) == o.id \notin denied

\* -------------------------------------------------- get_object (blocking)
\* `except (TypeError, ValueError, ValidationError, Http404)`
GetObjectCaughtWithoutValueError == {"TypeError", "ValidationError", "Http404"}
GetObjectCaught == {"TypeError", "ValueError", "ValidationError", "Http404"}
\* f"{queryset.model.__name__}: {lookup_value} not found!"
GetObjectDetail(q, v) == <<q.model, ": ", v, " not found!">>
\* filter_kwargs = {lookup_request_field: lookup_value}: the field the query matches on.
GetObjectFilterField == lrf
\* self.filter_queryset(...) dispatches to the subclass's method when it defines one.
GetObjectFiltered(q) == IF overridden \in {"filter_queryset", "both"} THEN CustomFilter(q) ELSE q

\* The failing assert of lines 102-106.
GetObjectMissingAttrAsNotFound == Raised("NotFound", <<ModelName, ": ", Absent, " not found!">>)
GetObjectMissingAttr == Raised("AssertionError", <<>>)
\* self.check_object_permissions(obj) raises, or obj is returned.
GetObjectPermOutcomeUnchecked(o) == Returned(o)
GetObjectPermOutcome(o) ==
  IF check_object_permissions(o) THEN Returned(o) ELSE Raised("PermissionDenied", <<>>)

Call_get_object ==
  /\ pc = "idle"
  /\ pc' = "filter"
  /\ op' = "get_object"
  /\ qs' = get_queryset
  /\ idx' = 1
  /\ events' = <<>>
  /\ warned' = SyncWarns
  /\ out' = Unset
  /\ syncOut' = Unset
  /\ lrf' = None /\ lookup_value' = Absent /\ obj' = NoEntity /\ pk_consulted' = FALSE
  /\ UNCHANGED <<config, pageVars, serializer, asyncOut>>

\* filter_queryset has returned into get_object.
GetObjectFilterDone ==
  /\ InFilter
  /\ idx > Len(filter_backends)
  /\ op = "get_object"
  /\ qs' = GetObjectFiltered(qs)
  /\ pc' = "lookup"
  /\ UNCHANGED <<config, pageVars, serializer, op, idx, locals, events, warned, out, syncOut, asyncOut>>

\* get_lookup_request_field, the assert, and getattr.
GetObjectLookup ==
  /\ pc = "lookup"
  /\ op = "get_object"
  /\ lrf' = get_lookup_request_field(qs)
  /\ pk_consulted' = ConsultsPk
  /\ IF HasAttr(lrf')
     THEN /\ lookup_value' = request[lrf']
          /\ pc' = "query"
          /\ UNCHANGED <<out, syncOut>>
     ELSE /\ out' = GetObjectMissingAttr
          /\ syncOut' = out'
          /\ pc' = "idle"
          /\ UNCHANGED lookup_value
  /\ UNCHANGED <<config, pageVars, serializer, op, qs, idx, obj, events, warned, asyncOut>>

\* get_object_or_404 inside the try, and the except clause.
GetObjectQuery ==
  /\ pc = "query"
  /\ op = "get_object"
  /\ LET r == get_object_or_404(qs, GetObjectFilterField, lookup_value)
     IN  /\ events' = Append(events, QueryEvent(qs, GetObjectFilterField, lookup_value, r.kind))
         /\ IF r.kind = "obj"
            THEN /\ obj' = r.obj
                 /\ pc' = "perm"
                 /\ UNCHANGED <<out, syncOut>>
            ELSE /\ out' = IF r.kind \in GetObjectCaught
                           THEN Raised("NotFound", GetObjectDetail(qs, lookup_value))
                           ELSE Raised(r.kind, <<>>)
                 /\ syncOut' = out'
                 /\ pc' = "idle"
                 /\ UNCHANGED obj
  /\ UNCHANGED <<config, pageVars, serializer, op, qs, idx, lrf, lookup_value, pk_consulted, warned, asyncOut>>

\* self.check_object_permissions(obj); return obj
GetObjectPerm ==
  /\ pc = "perm"
  /\ op = "get_object"
  /\ events' = Append(events, PermEvent(obj))
  /\ out' = GetObjectPermOutcome(obj)
  /\ syncOut' = out'
  /\ pc' = "idle"
  /\ UNCHANGED <<config, pageVars, serializer, op, qs, idx, locals, warned, asyncOut>>

\* ---------------------------------------------- aget_object (cooperative)
\* The permission check awaited by the cooperative path.
acheck_object_permissions(o) == o.id \notin denied

AGetObjectCaught == {"TypeError", "ValueError", "ValidationError", "Http404"}
AGetObjectDetailOtherFormat(q, v) == <<q.model, " ", v, " not found">>
AGetObjectDetail(q, v) == <<q.model, ": ", v, " not found!">>
AGetObjectFilterField == lrf
\* await self.afilter_queryset(...) dispatches to the subclass's method when it defines one.
AGetObjectFiltered(q) == IF overridden \in {"afilter_queryset", "both"} THEN CustomFilter(q) ELSE q

AGetObjectMissingAttr == Raised("AssertionError", <<>>)
AGetObjectPermOutcome(o) ==
  IF acheck_object_permissions(o) THEN Returned(o) ELSE Raised("PermissionDenied", <<>>)

Call_aget_object ==
  /\ pc = "idle"
  /\ pc' = "filter"
  /\ op' = "aget_object"
  /\ qs' = get_queryset
  /\ idx' = 1
  /\ events' = <<>>
  /\ warned' = AsyncWarns
  /\ out' = Unset
  /\ asyncOut' = Unset
  /\ lrf' = None /\ lookup_value' = Absent /\ obj' = NoEntity /\ pk_consulted' = FALSE
  /\ UNCHANGED <<config, pageVars, serializer, syncOut>>

\* afilter_queryset has returned into aget_object.
AGetObjectFilterDone ==
  /\ InFilter
  /\ idx > Len(filter_backends)
  /\ op = "aget_object"
  /\ qs' = AGetObjectFiltered(qs)
  /\ pc' = "lookup"
  /\ UNCHANGED <<config, pageVars, serializer, op, idx, locals, events, warned, out, syncOut, asyncOut>>

AGetObjectLookup ==
  /\ pc = "lookup"
  /\ op = "aget_object"
  /\ lrf' = get_lookup_request_field(qs)
  /\ pk_consulted' = ConsultsPk
  /\ IF HasAttr(lrf')
     THEN /\ lookup_value' = request[lrf']
          /\ pc' = "query"
          /\ UNCHANGED <<out, asyncOut>>
     ELSE /\ out' = AGetObjectMissingAttr
          /\ asyncOut' = out'
          /\ pc' = "idle"
          /\ UNCHANGED lookup_value
  /\ UNCHANGED <<config, pageVars, serializer, op, qs, idx, obj, events, warned, syncOut>>

\* await sync_to_async(get_object_or_404)(...) inside the try, and the except clause.
AGetObjectQuery ==
  /\ pc = "query"
  /\ op = "aget_object"
  /\ LET r == get_object_or_404(qs, AGetObjectFilterField, lookup_value)
     IN  /\ events' = Append(events, QueryEvent(qs, AGetObjectFilterField, lookup_value, r.kind))
         /\ IF r.kind = "obj"
            THEN /\ obj' = r.obj
                 /\ pc' = "perm"
                 /\ UNCHANGED <<out, asyncOut>>
            ELSE /\ out' = IF r.kind \in AGetObjectCaught
                           THEN Raised("NotFound", AGetObjectDetail(qs, lookup_value))
                           ELSE Raised(r.kind, <<>>)
                 /\ asyncOut' = out'
                 /\ pc' = "idle"
                 /\ UNCHANGED obj
  /\ UNCHANGED <<config, pageVars, serializer, op, qs, idx, lrf, lookup_value, pk_consulted, warned, syncOut>>

\* await self.acheck_object_permissions(obj); return obj
AGetObjectPerm ==
  /\ pc = "perm"
  /\ op = "aget_object"
  /\ events' = Append(events, PermEvent(obj))
  /\ out' = AGetObjectPermOutcome(obj)
  /\ asyncOut' = out'
  /\ pc' = "idle"
  /\ UNCHANGED <<config, pageVars, serializer, op, qs, idx, locals, warned, syncOut>>

\* ------------------------------------------------------------- paginator
\* The attribute _paginator: not yet set, or set to None (pid 0) or to an instance.
NoAttr == [has |-> FALSE, pid |-> 0]
Attr(pid) == [has |-> TRUE, pid |-> pid]

\* What the paginator pid returns from paginate_queryset(queryset, context, view=view).
Page(pid, q, ctx, view) ==
  [called |-> TRUE, paginator |-> pid, queryset |-> q, context |-> ctx, view |-> view]
\* Python's None as the result of paginate_queryset.
NonePage ==
  [called |-> FALSE, paginator |-> 0, queryset |-> NoQueryset, context |-> None, view |-> 0]
NoCall == [service |-> 0, queryset |-> NoQueryset, result |-> NonePage]

\* A fresh paginator instance, pagination_class(): an identity no earlier one has.
RECURSIVE Total(_)
Total(n) == IF n = 0 THEN 0 ELSE constructed[n] + Total(n - 1)
NewPaginator == 1 + Total(NumServices)

\* The property body: the attribute after the access (what the access returns is its pid).
PaginatorUncached(attr, cls, fresh) == IF cls = None THEN Attr(0) ELSE Attr(fresh)
Paginator(attr, cls, fresh) ==
  IF ~attr.has
  THEN IF cls = None THEN Attr(0) ELSE Attr(fresh)
  ELSE attr

\* Reading self.paginator on service s.
PaginatorAccess(s) ==
  /\ accesses[s] < MaxAccesses
  /\ LET after == Paginator(_paginator[s], pagination_class[s], NewPaginator)
     IN  /\ _paginator' = [_paginator EXCEPT ![s] = after]
         /\ accessed' = [accessed EXCEPT ![s] = @ \cup {after.pid}]
         /\ constructed' = [constructed EXCEPT ![s] =
                              @ + IF after.pid = NewPaginator THEN 1 ELSE 0]
  /\ accesses' = [accesses EXCEPT ![s] = @ + 1]
  /\ UNCHANGED <<config, handlerVars, pagination_class, page, serializer>>

\* The arguments paginate_queryset hands to the paginator.
PaginateViewMissing(s) == 0
PaginateView(s) == s
PaginateContext == context

\* paginate_queryset(queryset) on service s: `self.paginator is None`, and if it
\* is not, a second read of self.paginator and the paginator's paginate_queryset.
paginate_queryset(s, q) ==
  /\ accesses[s] + 2 <= MaxAccesses
  /\ LET first == Paginator(_paginator[s], pagination_class[s], NewPaginator)
         made == IF first.pid = NewPaginator THEN 1 ELSE 0
         second == Paginator(first, pagination_class[s], NewPaginator + made)
         again == IF second.pid = NewPaginator + made THEN 1 ELSE 0
     IN  IF first.pid = 0
         THEN /\ page' = [service |-> s, queryset |-> q, result |-> NonePage]
              /\ _paginator' = [_paginator EXCEPT ![s] = first]
              /\ accessed' = [accessed EXCEPT ![s] = @ \cup {first.pid}]
              /\ accesses' = [accesses EXCEPT ![s] = @ + 1]
              /\ UNCHANGED constructed
         ELSE /\ page' = [service |-> s, queryset |-> q,
                          result |-> Page(second.pid, q, PaginateContext, PaginateView(s))]
              /\ _paginator' = [_paginator EXCEPT ![s] = second]
              /\ accessed' = [accessed EXCEPT ![s] = @ \cup {first.pid, second.pid}]
              /\ accesses' = [accesses EXCEPT ![s] = @ + 2]
              /\ constructed' = [constructed EXCEPT ![s] = @ + made + again]
  /\ UNCHANGED <<config, handlerVars, pagination_class, serializer>>

InitPageVars ==
  /\ _paginator = [s \in Services |-> NoAttr]
  /\ constructed = [s \in Services |-> 0]
  /\ accessed = [s \in Services |-> {}]
  /\ accesses = [s \in Services |-> 0]
  /\ page = NoCall

\* ------------------------------------------------------------- serializer
\* Python's None as a context argument, and a mapping of the caller's own.
NoneContext == [none |-> TRUE]
CallerContext == [user |-> "alice"]
\* The keyword arguments of a call: whether `context` is among them, and its value.
Kwargs == [supplied : {FALSE}, context : {NoneContext}, many : BOOLEAN]
            \cup [supplied : {TRUE}, context : {NoneContext, CallerContext}, many : BOOLEAN]
NoSerializer ==
  [via |-> None, cls |-> None, given |-> [supplied |-> FALSE, context |-> NoneContext, many |-> FALSE],
   kwargs |-> [supplied |-> FALSE, context |-> NoneContext, many |-> FALSE]]

serializer_class == "BookProtoSerializer"
get_serializer_class == serializer_class

get_serializer_context_without_service == [grpc_request |-> request, grpc_context |-> context]
get_serializer_context ==
  [grpc_request |-> request, grpc_context |-> context, service |-> self]

\* kwargs.setdefault("context", default)
SetDefaultContext(kw, default) ==
  IF kw.supplied THEN kw ELSE [kw EXCEPT !.context = default]

get_serializer(kw) ==
  /\ serializer' = [via |-> "get_serializer", cls |-> get_serializer_class, given |-> kw,
                    kwargs |-> SetDefaultContext(kw, get_serializer_context)]
  /\ UNCHANGED <<config, handlerVars, pageVars>>

aget_serializer(kw) ==
  /\ serializer' = [via |-> "aget_serializer", cls |-> get_serializer_class, given |-> kw,
                    kwargs |-> SetDefaultContext(kw, get_serializer_context)]
  /\ UNCHANGED <<config, handlerVars, pageVars>>

\* ---------------------------------- get_lookup_request_field, called alone
Call_get_lookup_request_field(arg) ==
  /\ pc = "idle"
  /\ op' = "get_lookup_request_field"
  /\ qs' = IF arg = NoQueryset THEN get_queryset ELSE arg
  /\ lrf' = get_lookup_request_field(qs')
  /\ pk_consulted' = ConsultsPk
  /\ UNCHANGED <<config, pageVars, serializer, pc, idx, lookup_value, obj, events, warned,
                 out, syncOut, asyncOut>>


InitLocals ==
  /\ pc = "idle"
  /\ op = None
  /\ qs = NoQueryset
  /\ idx = 0
  /\ lrf = None
  /\ lookup_value = Absent
  /\ obj = NoEntity
  /\ pk_consulted = FALSE
  /\ events = <<>>
  /\ warned = FALSE
  /\ out = Unset
  /\ syncOut = Unset
  /\ asyncOut = Unset

InitFilter ==
  /\ pagination_class = [s \in Services |-> None]
  /\ InitPageVars
  /\ serializer = NoSerializer
  /\ self \in Services
  /\ request = [a \in {} |-> Absent]
  /\ context \in Contexts
  /\ queryset \in {Queryset(r) : r \in SUBSET EntityPool}
  /\ lookup_field = None
  /\ lookup_request_field = None
  /\ filter_backends \in SeqsUpTo(BackendPool, MaxBackends)
  /\ overridden \in {None, "filter_queryset", "afilter_queryset", "both"}
  /\ denied = {}
  /\ InitLocals

NextFilter ==
  \/ Call_filter_queryset
  \/ Call_afilter_queryset
  \/ BackendCall
  \/ BackendReturn
  \/ FilterReturn

SpecFilter == InitFilter /\ [][NextFilter]_vars

\* Requests: each attribute absent or holding a value.
AttrNames == ModelFields \cup {"ref"}
\* What an attribute of the request message can hold.
AttrValues(name) == IF name \in ModelFields THEN Values ELSE {v \in Values : v.kind = "int"}
Requests ==
  UNION {{r \in [names -> Values] : \A a \in names : r[a] \in AttrValues(a)} :
           names \in SUBSET AttrNames}

InitObj ==
  /\ pagination_class = [s \in Services |-> None]
  /\ InitPageVars
  /\ serializer = NoSerializer
  /\ self \in {1}
  /\ request \in Requests
  /\ context \in {"ctx1"}
  /\ queryset \in {Queryset({Entity(i) : i \in 1..k}) : k \in 0..MaxId}
  /\ lookup_field \in {None} \cup ModelFields
  /\ lookup_request_field \in {None} \cup AttrNames
  /\ filter_backends \in SeqsUpTo({[tag |-> "A", is_async |-> TRUE]}, 1)
  /\ overridden \in {None, "filter_queryset", "afilter_queryset", "both"}
  /\ denied \in SUBSET {2}
  /\ InitLocals

NextObj ==
  \/ Call_get_object
  \/ Call_aget_object
  \/ BackendCall
  \/ BackendReturn
  \/ GetObjectFilterDone
  \/ GetObjectLookup
  \/ GetObjectQuery
  \/ GetObjectPerm
  \/ AGetObjectFilterDone
  \/ AGetObjectLookup
  \/ AGetObjectQuery
  \/ AGetObjectPerm

SpecObj == InitObj /\ [][NextObj]_vars

\* ------------------------------------------------- properties of get_object
IsGetObject == op \in {"get_object", "aget_object"}
QueryEvents == {p \in DOMAIN events : events[p].ev = "query"}
PermEvents == {p \in DOMAIN events : events[p].ev = "perm"}
NotFoundFor(v) == Raised("NotFound", <<ModelName, ": ", v, " not found!">>)

\* The entity-side lookup field: lookup_field, else the entity type's primary key.
EntityField(q) == IF Truthy(lookup_field) THEN lookup_field ELSE ModelPk(q.model)

\* C1 (as claimed): every failure of the single-entity query, a second match
\* included, reaches the caller as NotFound '<entity type name>: <value> not found!'.
\* Stated over the calls whose query matched on the entity-side lookup field.
C1_EveryQueryFailureIsNotFound ==
  \A p \in QueryEvents :
    (/\ events[p].field = EntityField(events[p].qs)
     /\ events[p].tag \in {"TypeError", "ValueError", "ValidationError", "Http404",
                           "MultipleObjectsReturned"})
      => pc = "idle" /\ out = NotFoundFor(events[p].value)

\* C1 (amended): a type mismatch, a value mismatch, a validation failure or zero
\* matches reaches the caller as NotFound '<entity type name>: <value> not found!';
\* more than one match leaves get_object / aget_object as MultipleObjectsReturned.
C1_CaughtFailuresAreNotFound ==
  \A p \in QueryEvents :
    /\ events[p].tag \in {"TypeError", "ValueError", "ValidationError", "Http404"}
         => pc = "idle" /\ out = NotFoundFor(events[p].value)
    /\ events[p].tag = "MultipleObjectsReturned"
         => pc = "idle" /\ out = Raised("MultipleObjectsReturned", <<>>)

C1_Witness ==
  /\ op = "aget_object" /\ pc = "idle" /\ out.kind = "NotFound"
  /\ \E p \in QueryEvents : events[p].tag = "ValidationError"

\* C2: a request without the resolved lookup attribute ends get_object and
\* aget_object in an AssertionError, never NotFound, with no query on the
\* collection and no object permission check in that call.
C2_MissingAttributeAsserts ==
  (IsGetObject /\ pc # "filter" /\ pc # "backend" /\ pc # "lookup"
     /\ ~HasAttr(get_lookup_request_field(qs)))
    => /\ pc = "idle"
       /\ out = Raised("AssertionError", <<>>)
       /\ QueryEvents = {} /\ PermEvents = {}

C2_Witness ==
  /\ op = "get_object" /\ pc = "idle" /\ out.kind = "AssertionError"
  /\ Len(events) = 2 /\ ~HasAttr("id")

\* C3 (as claimed): for every configuration, filter method overrides included,
\* get_object and aget_object end in the same outcome.
C3_SyncAsyncAgree ==
  (syncOut # Unset /\ asyncOut # Unset) => syncOut = asyncOut

\* C3 (amended): when the service overrides neither filter method, or both with
\* the same narrowing, get_object and aget_object end in the same outcome.
C3_SyncAsyncAgreeUnlessOneOverride ==
  (syncOut # Unset /\ asyncOut # Unset /\ overridden \in {None, "both"})
    => syncOut = asyncOut

C3_Witness ==
  /\ syncOut.kind = "NotFound" /\ asyncOut.kind = "NotFound"
  /\ overridden = None /\ lookup_request_field = "date" /\ filter_backends # <<>>

\* C9: the query matches the collection on the entity-side lookup field
\* (lookup_field, else the primary key) for the value of the request attribute
\* named by the request-side field.
C9_QueryOnEntitySideField ==
  \A p \in QueryEvents :
    /\ events[p].field = EntityField(events[p].qs)
    /\ events[p].value = request[get_lookup_request_field(events[p].qs)]

\* C10: an entity is returned only after the object permission check ran on it
\* and passed; the check comes after the whole filter chain and the query; a
\* failing check ends the call in the checker's error and a NotFound call never
\* runs the check.
C10_PermissionBeforeReturn ==
  IsGetObject =>
    /\ \A p \in PermEvents :
         /\ p = Len(events) /\ p = 2 * Len(filter_backends) + 2
         /\ events[p - 1].ev = "query" /\ events[p - 1].tag = "obj"
         /\ \A k \in 1..(p - 2) : events[k].ev \in {"call", "ret"}
         /\ events[p].obj \in events[p - 1].qs.rows
         /\ pc = "idle"
         /\ out = IF events[p].obj.id \in denied THEN Raised("PermissionDenied", <<>>)
                  ELSE Returned(events[p].obj)
    /\ out.kind = "obj" => PermEvents # {}
    /\ out.kind = "NotFound" => PermEvents = {}

C10_Witness ==
  /\ op = "aget_object" /\ out.kind = "PermissionDenied" /\ Len(events) = 4

InitPage ==
  /\ pagination_class \in [Services -> {None, "PageNumberPagination"}]
  /\ InitPageVars
  /\ serializer = NoSerializer
  /\ self = 1
  /\ request = [a \in {} |-> Absent]
  /\ context \in Contexts
  /\ queryset = Queryset(EntityPool)
  /\ lookup_field = None
  /\ lookup_request_field = None
  /\ filter_backends = <<>>
  /\ overridden = None
  /\ denied = {}
  /\ InitLocals

NextPage ==
  \/ \E s \in Services : PaginatorAccess(s)
  \/ \E s \in Services, k \in 0..MaxId : paginate_queryset(s, Queryset({Entity(i) : i \in 1..k}))

SpecPage == InitPage /\ [][NextPage]_vars

InitSer ==
  /\ pagination_class = [s \in Services |-> None]
  /\ InitPageVars
  /\ serializer = NoSerializer
  /\ self \in Services
  /\ request \in Requests
  /\ context \in Contexts
  /\ queryset = Queryset(EntityPool)
  /\ lookup_field = None
  /\ lookup_request_field = None
  /\ filter_backends = <<>>
  /\ overridden = None
  /\ denied = {}
  /\ InitLocals

NextSer ==
  \/ \E kw \in Kwargs : get_serializer(kw)
  \/ \E kw \in Kwargs : aget_serializer(kw)

SpecSer == InitSer /\ [][NextSer]_vars

\* Collections of either entity type.
Querysets == {[model |-> m, rows |-> {Entity(i) : i \in 1..k}, tags |-> <<>>] :
                m \in {"Book", "User"}, k \in 0..MaxId}

InitLookup ==
  /\ pagination_class = [s \in Services |-> None]
  /\ InitPageVars
  /\ serializer = NoSerializer
  /\ self = 1
  /\ request = [a \in {} |-> Absent]
  /\ context = "ctx1"
  /\ queryset \in Querysets
  /\ lookup_field \in {None, "", "id", "date"}
  /\ lookup_request_field \in {None, "", "id", "date", "ref"}
  /\ filter_backends = <<>>
  /\ overridden = None
  /\ denied = {}
  /\ InitLocals

NextLookup ==
  \E arg \in {NoQueryset} \cup Querysets : Call_get_lookup_request_field(arg)

SpecLookup == InitLookup /\ [][NextLookup]_vars

\* ----------------------------------------------- properties of the filter chain
RECURSIVE FoldBackends(_, _)
FoldBackends(bs, q) ==
  IF bs = <<>> THEN q
  ELSE FoldBackends(Tail(bs), BackendFilter(Head(bs), context, q, self))

\* C4: the backends are folded over the collection in declared order: backend i
\* is called once, with the call context, the service and the collection that
\* backend i-1 returned, and only after backend i-1 returned; the result is the
\* last backend's output, in both execution modes, for sync and async backends.
C4_FoldInDeclaredOrder ==
  /\ \A p \in DOMAIN events :
       LET k == (p + 1) \div 2
           e == events[p]
       IN  /\ k <= Len(filter_backends)
           /\ e.idx = k /\ e.tag = filter_backends[k].tag
           /\ e.ev = IF p % 2 = 1 THEN "call" ELSE "ret"
           /\ e.ctx = context /\ e.view = self
           /\ e.qs = IF p = 1 THEN queryset
                     ELSE IF p % 2 = 1 THEN events[p - 1].qs
                     ELSE BackendFilter(filter_backends[k], context, events[p - 1].qs, self)
  /\ pc = "backend" <=> Len(events) % 2 = 1
  /\ out.kind = "queryset"
       => /\ Len(events) = 2 * Len(filter_backends)
          /\ out.qs = FoldBackends(filter_backends, queryset)

C4_Witness ==
  /\ op = "afilter_queryset" /\ out.kind = "queryset"
  /\ Len(filter_backends) = 2
  /\ filter_backends[1].is_async /\ ~filter_backends[2].is_async
  /\ out.qs.tags = <<"A", "B">>

\* ------------------------------------------- properties of lookup resolution
IsSet(x) == x # None /\ x # ""

\* C5: get_lookup_request_field returns lookup_request_field when set, else
\* lookup_field when set, else the primary-key name of the collection's entity
\* type; the primary key is consulted only when lookup_field is not set.
C5_LookupPrecedence ==
  op = "get_lookup_request_field" =>
    /\ lrf = IF IsSet(lookup_request_field) THEN lookup_request_field
             ELSE IF IsSet(lookup_field) THEN lookup_field
             ELSE IF qs.model = "Book" THEN "id" ELSE "uuid"
    /\ pk_consulted => ~IsSet(lookup_field)

C5_Witness ==
  /\ op = "get_lookup_request_field" /\ lrf = "uuid" /\ pk_consulted
  /\ queryset.model = "Book"

\* ------------------------------------------------ properties of pagination
\* C6: on one service the pagination class is constructed at most once and every
\* read of the paginator returns the same instance; two services never share one.
C6_PaginatorBuiltOnce ==
  /\ \A s \in Services :
       /\ constructed[s] <= 1
       /\ Cardinality(accessed[s]) <= 1
       /\ accessed[s] # {} => accessed[s] = {_paginator[s].pid}
  /\ \A s, t \in Services : s # t => accessed[s] \cap accessed[t] \subseteq {0}

C6_Witness ==
  /\ accesses[1] >= 3 /\ accesses[2] >= 2
  /\ _paginator[1].pid # 0 /\ _paginator[2].pid # 0
  /\ page.service = 1

\* C7: with pagination disabled paginate_queryset returns None and calls no
\* paginator; otherwise it returns what the service's paginator returns for
\* (collection, call context, the service).
C7_PaginateDelegates ==
  page.service # 0 =>
    IF pagination_class[page.service] = None
    THEN page.result = NonePage
    ELSE page.result = Page(_paginator[page.service].pid, page.queryset, context, page.service)

C7_Witness ==
  /\ page.service # 0 /\ pagination_class[page.service] = None
  /\ page.queryset.rows # {} /\ page.result = NonePage
  /\ accessed[page.service] = {0}

\* ----------------------------------------------- properties of serializers
\* C8: without a context argument the serializer gets the three-entry context
\* (request, call context, the service) of the current service; a context
\* argument of the caller is passed through as it is.
C8_SerializerContext ==
  serializer.via # None =>
    IF serializer.given.supplied
    THEN serializer.kwargs = serializer.given
    ELSE /\ DOMAIN serializer.kwargs.context = {"grpc_request", "grpc_context", "service"}
         /\ serializer.kwargs.context.grpc_request = request
         /\ serializer.kwargs.context.grpc_context = context
         /\ serializer.kwargs.context.service = self
         /\ serializer.kwargs.many = serializer.given.many

C8_Witness ==
  /\ serializer.via = "aget_serializer" /\ ~serializer.given.supplied
  /\ DOMAIN request = {"id", "ref"} /\ self = 2

====
